---------------------------- MODULE Spec2Model ----------------------------
(***************************************************************************)
(* Model of the keeper registry client (internal/pkg/keeper/client.go).    *)
(*                                                                         *)
(* A Go string is a sequence of one-character tokens.  Two tokens stand    *)
(* for things that are not printable ASCII: InvalidByte (a byte that is    *)
(* not valid UTF-8, e.g. 0xFF) and ReplacementChar (the rune U+FFFD).      *)
(* An HTTP response is a record: a transport error, or a status code and a *)
(* body.  A JSON body is a record of optional members whose string and     *)
(* number values are kept in their encoded (wire) form.                    *)
(***************************************************************************)
EXTENDS Integers, Sequences, FiniteSets, TLC

(***************************************************************************)
(* Bounds                                                                  *)
(***************************************************************************)
\* the number of response bodies that may stay open before the process
\* stops issuing requests (descriptor exhaustion)
MaxOpenBodies == 2

\* the longest registration list the registry answers with
MaxListLen == 2

(***************************************************************************)
(* Strings                                                                 *)
(***************************************************************************)
Quote == "\""

Backslash == "\\"

InvalidByte == "xFF"

ReplacementChar == "uFFFD"

EmptyString == << >>

Str_a == <<"a">>

Str_b == <<"b">>

Str_a_query_b == <<"a", "?", "b">>

Str_up == <<"u", "p">>

Str_http == <<"h", "t", "t", "p">>

\* unicode.SimpleFold restricted to the letters of the model: the canonical
\* (lower-case) member of a character's fold orbit
FoldChar(c) ==
    CASE c = "U" -> "u"
      [] c = "P" -> "p"
      [] c = "D" -> "d"
      [] OTHER -> c

\* strings.EqualFold replaced by a comparison that is exact in letter case
EqualFold_Exact(s, t) == s = t

\* strings.EqualFold
EqualFold(s, t) ==
    /\ Len(s) = Len(t)
    /\ \A i \in 1..Len(s) : FoldChar(s[i]) = FoldChar(t[i])

(***************************************************************************)
(* encoding/json, strings: Marshal escapes the quote, the backslash and    *)
(* '<' and coerces invalid UTF-8 to U+FFFD; Unmarshal undoes the escapes.  *)
(***************************************************************************)
EscapeChar(c) ==
    CASE c = Quote -> <<Backslash, Quote>>
      [] c = Backslash -> <<Backslash, Backslash>>
      [] c = "<" -> <<Backslash, "u003c">>
      [] c = InvalidByte -> <<Backslash, "ufffd">>
      [] OTHER -> <<c>>

RECURSIVE encodeString(_)
encodeString(s) ==
    IF s = << >> THEN << >>
    ELSE EscapeChar(Head(s)) \o encodeString(Tail(s))

UnescapeChar(c) ==
    CASE c = "u003c" -> "<"
      [] c = "ufffd" -> ReplacementChar
      [] OTHER -> c

RECURSIVE decodeString(_)
decodeString(w) ==
    IF w = << >> THEN << >>
    ELSE IF Head(w) = Backslash /\ Len(w) >= 2
         THEN <<UnescapeChar(w[2])>> \o decodeString(Tail(Tail(w)))
         ELSE <<Head(w)>> \o decodeString(Tail(w))

(***************************************************************************)
(* encoding/json, integers: decimal digits with a leading minus sign.      *)
(***************************************************************************)
Digits == <<"0", "1", "2", "3", "4", "5", "6", "7", "8", "9">>

DigitValue(d) == CHOOSE v \in 0..9 : Digits[v + 1] = d

RECURSIVE encodeNat(_)
encodeNat(n) ==
    IF n < 10 THEN <<Digits[n + 1]>>
    ELSE encodeNat(n \div 10) \o <<Digits[(n % 10) + 1]>>

encodeInt(n) == IF n < 0 THEN <<"-">> \o encodeNat(0 - n) ELSE encodeNat(n)

RECURSIVE decodeNat(_)
decodeNat(w) ==
    IF w = << >> THEN 0
    ELSE decodeNat(SubSeq(w, 1, Len(w) - 1)) * 10 + DigitValue(w[Len(w)])

decodeInt(w) ==
    IF w # << >> /\ Head(w) = "-" THEN 0 - decodeNat(Tail(w)) ELSE decodeNat(w)

(***************************************************************************)
(* Wire constants and wire types (used by client.go, declared elsewhere    *)
(* in package keeper).                                                     *)
(***************************************************************************)
ApiRegisterRoute == "/registration"

ApiRegistrationByServiceIdRoute == "/registration/"

ApiAllRegistrationRoute == "/registration/all"

ApiPingRoute == "/ping"

ApiVersion == <<"v", "3">>

ContentTypeJSON == "application/json"

StatusOK == 200

StatusCreated == 201

StatusNoContent == 204

StatusMultipleChoices == 300

StatusNotFound == 404

StatusConflict == 409

\* HealthCheck{Interval, Path, Type}
HealthCheck(interval, path, type) ==
    [Interval |-> interval, Path |-> path, Type |-> type]

\* RegistrationDTO{ServiceId, Status, Host, Port, HealthCheck}
RegistrationDTO(id, status, host, port, hc) ==
    [ServiceId |-> id, Status |-> status, Host |-> host, Port |-> port,
     HealthCheck |-> hc]

ZeroRegistration ==
    RegistrationDTO(EmptyString, EmptyString, EmptyString, 0,
                    HealthCheck(EmptyString, EmptyString, EmptyString))

\* json.Marshal of a RegistrationDTO
encodeRegistration(r) ==
    [serviceId |-> encodeString(r.ServiceId),
     status |-> encodeString(r.Status),
     host |-> encodeString(r.Host),
     port |-> encodeInt(r.Port),
     healthCheck |-> [interval |-> encodeString(r.HealthCheck.Interval),
                      path |-> encodeString(r.HealthCheck.Path),
                      type |-> encodeString(r.HealthCheck.Type)]]

\* json.Unmarshal into a RegistrationDTO
decodeRegistration(w) ==
    RegistrationDTO(decodeString(w.serviceId), decodeString(w.status),
                    decodeString(w.host), decodeInt(w.port),
                    HealthCheck(decodeString(w.healthCheck.interval),
                                decodeString(w.healthCheck.path),
                                decodeString(w.healthCheck.type)))

\* AddRegistrationRequest{BaseRequest{Versionable{ApiVersion}}, Registration}
AddRegistrationRequest(apiVersion, registration) ==
    [ApiVersion |-> apiVersion, Registration |-> registration]

\* json.Marshal(registrationReq)
jsonMarshal(req) ==
    [apiVersion |-> encodeString(req.ApiVersion),
     registration |-> encodeRegistration(req.Registration)]

(***************************************************************************)
(* HTTP requests and responses                                             *)
(***************************************************************************)
NoBody == jsonMarshal(AddRegistrationRequest(EmptyString, ZeroRegistration))

\* url.Parse, applied to the text that follows the route in the url: the path
\* ends at the first '?' (the query) or '#' (the fragment)
RECURSIVE PathOf(_)
PathOf(text) ==
    IF text = << >> \/ Head(text) \in {"?", "#"} THEN << >>
    ELSE <<Head(text)>> \o PathOf(Tail(text))

\* http.NewRequest(method, url, body): the url is route followed by key as
\* text, not escaped; path is the part of key that the parsed url keeps in
\* its path
NewRequest(method, route, key, hasBody, body, contentType) ==
    [method |-> method, route |-> route, key |-> key, path |-> PathOf(key),
     hasBody |-> hasBody, body |-> body, contentType |-> contentType]

\* a response body: a JSON object with the members it carries, a text that
\* is not the expected JSON ("garbage"), or a stream whose read fails
Body(kind, members, message, registration, registrations) ==
    [kind |-> kind, members |-> members, message |-> message,
     registration |-> registration, registrations |-> registrations]

JsonBody(members, message, registration, registrations) ==
    Body("json", members, message, registration, registrations)

EnvelopeBody(msg) ==
    JsonBody({"message"}, encodeString(msg), encodeRegistration(ZeroRegistration), << >>)

RegistrationBody(r) ==
    JsonBody({"registration"}, << >>, encodeRegistration(r), << >>)

RECURSIVE encodeRegistrations(_)
encodeRegistrations(rs) ==
    IF rs = << >> THEN << >>
    ELSE <<encodeRegistration(Head(rs))>> \o encodeRegistrations(Tail(rs))

ListBody(rs) ==
    JsonBody({"registrations"}, << >>, encodeRegistration(ZeroRegistration),
             encodeRegistrations(rs))

EmptyObjectBody == JsonBody({}, << >>, encodeRegistration(ZeroRegistration), << >>)

GarbageBody == Body("garbage", {}, << >>, encodeRegistration(ZeroRegistration), << >>)

ReadErrBody == Body("readerr", {}, << >>, encodeRegistration(ZeroRegistration), << >>)

\* *http.Response, or the error of client.Do
Response(status, body) ==
    [transportErr |-> FALSE, StatusCode |-> status, Body |-> body]

TransportError == [transportErr |-> TRUE, StatusCode |-> 0, Body |-> ReadErrBody]

\* io.ReadAll(resp.Body)
ReadAll(body) == [err |-> body.kind = "readerr", bytes |-> body]

\* json.Unmarshal(bodyBytes, &BaseResponse): unknown members are ignored,
\* missing members keep the zero value
UnmarshalBaseResponse(bytes) ==
    [err |-> bytes.kind # "json",
     Message |-> IF bytes.kind = "json" /\ "message" \in bytes.members
                 THEN decodeString(bytes.message) ELSE EmptyString]

\* json.Unmarshal(bodyBytes, &RegistrationResponse)
UnmarshalRegistrationResponse(bytes) ==
    [err |-> bytes.kind # "json",
     Registration |-> IF bytes.kind = "json" /\ "registration" \in bytes.members
                      THEN decodeRegistration(bytes.registration)
                      ELSE ZeroRegistration]

RECURSIVE decodeRegistrations(_)
decodeRegistrations(ws) ==
    IF ws = << >> THEN << >>
    ELSE <<decodeRegistration(Head(ws))>> \o decodeRegistrations(Tail(ws))

\* json.Unmarshal(bodyBytes, &MultiRegistrationsResponse)
UnmarshalMultiRegistrationsResponse(bytes) ==
    [err |-> bytes.kind # "json",
     Registrations |-> IF bytes.kind = "json" /\ "registrations" \in bytes.members
                       THEN decodeRegistrations(bytes.registrations)
                       ELSE << >>]

(***************************************************************************)
(* Errors and results                                                      *)
(***************************************************************************)
\* fmt.Errorf(format, args...)
Errorf(format, args) == [fmt |-> format, args |-> args]

NoError == Errorf("", << >>)

TransportErrText == <<"t", "i", "m", "e", "o", "u", "t">>

ReadErrText == <<"E", "O", "F">>

DecodeErrText == <<"s", "y", "n", "t", "a", "x">>

\* types.ServiceEndpoint{ServiceId, Host, Port}
ServiceEndpoint(id, host, port) == [ServiceId |-> id, Host |-> host, Port |-> port]

ZeroEndpoint == ServiceEndpoint(EmptyString, EmptyString, 0)

\* what one call of an operation did: the requests it sent, what it returned
\* (error, boolean, endpoint, endpoints as the operation has them) and how
\* many response bodies it obtained and how many of those it closed
Outcome(reqs, err, bool, endpoint, endpoints, obtained, closed) ==
    [reqs |-> reqs, err |-> err, bool |-> bool, endpoint |-> endpoint,
     endpoints |-> endpoints, obtained |-> obtained, closed |-> closed]

ErrOutcome(reqs, err, obtained, closed) ==
    Outcome(reqs, err, FALSE, ZeroEndpoint, << >>, obtained, closed)

(***************************************************************************)
(* The client                                                              *)
(***************************************************************************)
\* types.Config, the fields the client reads
Config(key, host, port, route, interval) ==
    [ServiceKey |-> key, ServiceHost |-> host, ServicePort |-> port,
     CheckRoute |-> route, CheckInterval |-> interval]

NewKeeperClient(registryConfig) ==
    IF registryConfig.ServiceHost # EmptyString
    THEN [serviceKey |-> registryConfig.ServiceKey,
          serviceHost |-> registryConfig.ServiceHost,
          servicePort |-> registryConfig.ServicePort,
          healthCheckRoute |-> registryConfig.CheckRoute,
          healthCheckInterval |-> registryConfig.CheckInterval]
    ELSE [serviceKey |-> registryConfig.ServiceKey,
          serviceHost |-> EmptyString,
          servicePort |-> 0,
          healthCheckRoute |-> EmptyString,
          healthCheckInterval |-> EmptyString]

\* the precondition of Register without the check of the port
ServiceInformationSet_NoPort(k) ==
    ~ (\/ k.serviceKey = EmptyString
       \/ k.serviceHost = EmptyString
       \/ k.healthCheckRoute = EmptyString
       \/ k.healthCheckInterval = EmptyString)

\* the precondition of Register
ServiceInformationSet(k) ==
    ~ (\/ k.serviceKey = EmptyString
       \/ k.serviceHost = EmptyString
       \/ k.servicePort = 0
       \/ k.healthCheckRoute = EmptyString
       \/ k.healthCheckInterval = EmptyString)

\* the registration request Register builds and encodes
RegistrationRequestBody(k) ==
    jsonMarshal(AddRegistrationRequest(ApiVersion,
        RegistrationDTO(k.serviceKey, EmptyString, k.serviceHost, k.servicePort,
                        HealthCheck(k.healthCheckInterval, k.healthCheckRoute,
                                    Str_http))))

\* the request of getRegistryByService
GetRegistryByServiceRequest(key) ==
    NewRequest("GET", ApiRegistrationByServiceIdRoute, key, FALSE, NoBody, "")

\* Register: the method with the two branches exchanged
RegisterMethod_Swapped(probe) ==
    IF probe.StatusCode = StatusOK THEN "POST" ELSE "PUT"

\* Register: the method chosen from the existence probe
RegisterMethod(probe) ==
    IF probe.StatusCode = StatusOK THEN "PUT" ELSE "POST"

\* Register: the PUT or POST request
RegisterRequest(k, probe) ==
    NewRequest(RegisterMethod(probe), ApiRegisterRoute, EmptyString, TRUE,
               RegistrationRequestBody(k), ContentTypeJSON)

\* the error of a response outside the success set: io.ReadAll, then
\* json.Unmarshal into a BaseResponse, then the message put into format
EnvelopeError(body, format, prefix) ==
    LET read == ReadAll(body)
        response == UnmarshalBaseResponse(read.bytes)
    IN  IF read.err
        THEN Errorf("failed to read response body: %s", <<ReadErrText>>)
        ELSE IF response.err
             THEN Errorf("failed to decode response body: %s", <<DecodeErrText>>)
             ELSE Errorf(format, prefix \o <<response.Message>>)

\* Register, given the response to the probe and the response to PUT/POST
Register(k, probe, resp) ==
    IF ~ ServiceInformationSet(k)
    THEN ErrOutcome(<< >>,
            Errorf("unable to register service with keeper: Service information not set", << >>),
            0, 0)
    ELSE LET probeReq == GetRegistryByServiceRequest(k.serviceKey)
             req == RegisterRequest(k, probe)
         IN  IF probe.transportErr
             THEN ErrOutcome(<<probeReq>>,
                     Errorf("failed to check the %s service registry status: %s",
                            <<k.serviceKey, TransportErrText>>),
                     0, 0)
             ELSE IF resp.transportErr
             THEN ErrOutcome(<<probeReq, req>>,
                     Errorf("http error: %s", <<TransportErrText>>), 1, 0)
             ELSE IF resp.StatusCode # StatusCreated /\ resp.StatusCode # StatusNoContent
             THEN ErrOutcome(<<probeReq, req>>,
                     EnvelopeError(resp.Body, "failed to register %s: %s", <<k.serviceKey>>),
                     2, 1)
             ELSE Outcome(<<probeReq, req>>, NoError, FALSE, ZeroEndpoint, << >>, 2, 1)

\* Unregister accepting 200 as well as 204
Unregister_Accepts200(k, resp) ==
    LET req == NewRequest("DELETE", ApiRegistrationByServiceIdRoute, k.serviceKey,
                          FALSE, NoBody, "")
    IN  IF resp.transportErr
        THEN ErrOutcome(<<req>>, Errorf("http error: %s", <<TransportErrText>>), 0, 0)
        ELSE IF resp.StatusCode # StatusNoContent /\ resp.StatusCode # StatusOK
        THEN ErrOutcome(<<req>>,
                EnvelopeError(resp.Body, "failed to unregister %s: %s", <<k.serviceKey>>),
                1, 1)
        ELSE Outcome(<<req>>, NoError, FALSE, ZeroEndpoint, << >>, 1, 1)

\* Unregister, given the response to the DELETE
Unregister(k, resp) ==
    LET req == NewRequest("DELETE", ApiRegistrationByServiceIdRoute, k.serviceKey,
                          FALSE, NoBody, "")
    IN  IF resp.transportErr
        THEN ErrOutcome(<<req>>, Errorf("http error: %s", <<TransportErrText>>), 0, 0)
        ELSE IF resp.StatusCode # StatusNoContent
        THEN ErrOutcome(<<req>>,
                EnvelopeError(resp.Body, "failed to unregister %s: %s", <<k.serviceKey>>),
                1, 1)
        ELSE Outcome(<<req>>, NoError, FALSE, ZeroEndpoint, << >>, 1, 1)

\* IsAlive with the upper end of the range included
IsAlive_Inclusive(k, resp) ==
    LET req == NewRequest("GET", ApiPingRoute, EmptyString, FALSE, NoBody, "")
    IN  IF resp.transportErr
        THEN Outcome(<<req>>, NoError, FALSE, ZeroEndpoint, << >>, 0, 0)
        ELSE IF resp.StatusCode >= StatusOK /\ resp.StatusCode <= StatusMultipleChoices
        THEN Outcome(<<req>>, NoError, TRUE, ZeroEndpoint, << >>, 1, 0)
        ELSE Outcome(<<req>>, NoError, FALSE, ZeroEndpoint, << >>, 1, 0)

\* IsAlive, given the response to the ping; it returns a boolean only
IsAlive(k, resp) ==
    LET req == NewRequest("GET", ApiPingRoute, EmptyString, FALSE, NoBody, "")
    IN  IF resp.transportErr
        THEN Outcome(<<req>>, NoError, FALSE, ZeroEndpoint, << >>, 0, 0)
        ELSE IF resp.StatusCode >= StatusOK /\ resp.StatusCode < StatusMultipleChoices
        THEN Outcome(<<req>>, NoError, TRUE, ZeroEndpoint, << >>, 1, 0)
        ELSE Outcome(<<req>>, NoError, FALSE, ZeroEndpoint, << >>, 1, 0)

\* the endpoint with the identifier taken from the record
EndpointOf_RecordId(serviceKey, r) ==
    ServiceEndpoint(r.Registration.ServiceId, r.Registration.Host, r.Registration.Port)

\* the endpoint GetServiceEndpoint builds from the requested key and the record
EndpointOf(serviceKey, r) ==
    ServiceEndpoint(serviceKey, r.Registration.Host, r.Registration.Port)

\* GetServiceEndpoint, given the response to the GET
GetServiceEndpoint(k, serviceKey, resp) ==
    LET req == NewRequest("GET", ApiRegistrationByServiceIdRoute, serviceKey,
                          FALSE, NoBody, "")
        read == ReadAll(resp.Body)
        r == UnmarshalRegistrationResponse(read.bytes)
    IN  IF resp.transportErr
        THEN ErrOutcome(<<req>>, Errorf("http error: %s", <<TransportErrText>>), 0, 0)
        ELSE IF read.err
        THEN ErrOutcome(<<req>>,
                Errorf("failed to read response body: %s", <<ReadErrText>>), 1, 1)
        ELSE IF resp.StatusCode # StatusOK
        THEN ErrOutcome(<<req>>,
                EnvelopeError(resp.Body, "failed to get service endpoint: %s", << >>),
                1, 1)
        ELSE IF r.err
        THEN ErrOutcome(<<req>>,
                Errorf("failed to decode response body: %s", <<DecodeErrText>>), 1, 1)
        ELSE Outcome(<<req>>, NoError, FALSE, EndpointOf(serviceKey, r), << >>, 1, 1)

\* the loop of GetAllServiceEndpoints filling the slice from its end
ProjectEndpoints_Reversed(registrations) ==
    [idx \in 1..Len(registrations) |->
        ServiceEndpoint(registrations[Len(registrations) + 1 - idx].ServiceId,
                        registrations[Len(registrations) + 1 - idx].Host,
                        registrations[Len(registrations) + 1 - idx].Port)]

\* the loop of GetAllServiceEndpoints: endpoints[idx] from Registrations[idx]
ProjectEndpoints(registrations) ==
    [idx \in 1..Len(registrations) |->
        ServiceEndpoint(registrations[idx].ServiceId, registrations[idx].Host,
                        registrations[idx].Port)]

\* GetAllServiceEndpoints, given the response to the GET
GetAllServiceEndpoints(k, resp) ==
    LET req == NewRequest("GET", ApiAllRegistrationRoute, EmptyString, FALSE, NoBody, "")
        read == ReadAll(resp.Body)
        responseDTO == UnmarshalMultiRegistrationsResponse(read.bytes)
    IN  IF resp.transportErr
        THEN ErrOutcome(<<req>>, Errorf("http error: %s", <<TransportErrText>>), 0, 0)
        ELSE IF read.err
        THEN ErrOutcome(<<req>>,
                Errorf("failed to read response body: %s", <<ReadErrText>>), 1, 1)
        ELSE IF resp.StatusCode # StatusOK
        THEN ErrOutcome(<<req>>,
                EnvelopeError(resp.Body, "failed to get all service endpoints: %s", << >>),
                1, 1)
        ELSE IF responseDTO.err
        THEN ErrOutcome(<<req>>,
                Errorf("failed to decode response body: %s", <<DecodeErrText>>), 1, 1)
        ELSE Outcome(<<req>>, NoError, FALSE, ZeroEndpoint,
                ProjectEndpoints(responseDTO.Registrations), 1, 1)

\* IsServiceAvailable, given the response to the GET
IsServiceAvailable(k, serviceKey, resp) ==
    LET req == GetRegistryByServiceRequest(serviceKey)
        read == ReadAll(resp.Body)
        response == UnmarshalRegistrationResponse(read.bytes)
    IN  IF resp.transportErr
        THEN ErrOutcome(<<req>>,
                Errorf("failed to get %s service registry: %s",
                       <<serviceKey, TransportErrText>>), 0, 0)
        ELSE IF read.err
        THEN ErrOutcome(<<req>>,
                Errorf("failed to read response body: %s", <<ReadErrText>>), 1, 1)
        ELSE IF resp.StatusCode = StatusOK
        THEN IF response.err
             THEN ErrOutcome(<<req>>,
                     Errorf("failed to decode response body: %s", <<DecodeErrText>>), 1, 1)
             ELSE IF ~ EqualFold(response.Registration.Status, Str_up)
             THEN ErrOutcome(<<req>>,
                     Errorf(" %s service not healthy...", <<serviceKey>>), 1, 1)
             ELSE Outcome(<<req>>, NoError, TRUE, ZeroEndpoint, << >>, 1, 1)
        ELSE IF resp.StatusCode = StatusNotFound
        THEN ErrOutcome(<<req>>,
                Errorf("%s service is not registered. Might not have started... ",
                       <<serviceKey>>), 1, 1)
        ELSE ErrOutcome(<<req>>,
                EnvelopeError(resp.Body, "failed to check service availability: %s", << >>),
                1, 1)

(***************************************************************************)
(* The registry: a conformant server, as the client's contract describes   *)
(* it.  A record per service key; GET answers 200 with the record or 404,  *)
(* POST creates only a record that does not exist, PUT updates only one    *)
(* that exists, DELETE removes one that exists.                            *)
(***************************************************************************)
RegistryKeys == {Str_a, Str_b, Str_a_query_b}

KeyOrder == <<Str_a, Str_b, Str_a_query_b>>

Absent == [present |-> FALSE, rec |-> ZeroRegistration]

Present(r) == [present |-> TRUE, rec |-> r]

NotFoundMessage == <<"n", "o", "n", "e">>

ConflictMessage == <<"d", "u", "p">>

RECURSIVE ListRegistrations(_, _)
ListRegistrations(reg, keys) ==
    IF keys = << >> THEN << >>
    ELSE (IF reg[Head(keys)].present THEN <<reg[Head(keys)].rec>> ELSE << >>)
         \o ListRegistrations(reg, Tail(keys))

\* the registry's answer to a request and the registry after it
Serve(reg, req) ==
    LET r == decodeRegistration(req.body.registration)
        stored == [r EXCEPT !.Status = IF r.ServiceId \in RegistryKeys
                                          /\ reg[r.ServiceId].present
                                       THEN reg[r.ServiceId].rec.Status
                                       ELSE EmptyString]
        known == req.path \in RegistryKeys /\ reg[req.path].present
    IN  CASE req.route = ApiPingRoute ->
               [resp |-> Response(StatusOK, EmptyObjectBody), registry |-> reg]
          [] req.route = ApiAllRegistrationRoute ->
               [resp |-> Response(StatusOK, ListBody(ListRegistrations(reg, KeyOrder))),
                registry |-> reg]
          [] req.route = ApiRegistrationByServiceIdRoute /\ req.method = "GET" ->
               IF known
               THEN [resp |-> Response(StatusOK, RegistrationBody(reg[req.path].rec)),
                     registry |-> reg]
               ELSE [resp |-> Response(StatusNotFound, EnvelopeBody(NotFoundMessage)),
                     registry |-> reg]
          [] req.route = ApiRegistrationByServiceIdRoute /\ req.method = "DELETE" ->
               IF known
               THEN [resp |-> Response(StatusNoContent, EmptyObjectBody),
                     registry |-> [reg EXCEPT ![req.path] = Absent]]
               ELSE [resp |-> Response(StatusNotFound, EnvelopeBody(NotFoundMessage)),
                     registry |-> reg]
          [] req.route = ApiRegisterRoute /\ req.method = "POST" ->
               IF r.ServiceId \in RegistryKeys /\ ~ reg[r.ServiceId].present
               THEN [resp |-> Response(StatusCreated, EmptyObjectBody),
                     registry |-> [reg EXCEPT ![r.ServiceId] = Present(stored)]]
               ELSE [resp |-> Response(StatusConflict, EnvelopeBody(ConflictMessage)),
                     registry |-> reg]
          [] req.route = ApiRegisterRoute /\ req.method = "PUT" ->
               IF r.ServiceId \in RegistryKeys /\ reg[r.ServiceId].present
               THEN [resp |-> Response(StatusNoContent, EmptyObjectBody),
                     registry |-> [reg EXCEPT ![r.ServiceId] = Present(stored)]]
               ELSE [resp |-> Response(StatusNotFound, EnvelopeBody(NotFoundMessage)),
                     registry |-> reg]

(***************************************************************************)
(* Inputs                                                                  *)
(***************************************************************************)
HostPlain == <<"h">>

HostEscaped == <<"h", Quote, "<", Backslash>>

ServiceKeys == {EmptyString, Str_a, Str_a_query_b}

ServiceHosts == {EmptyString, HostPlain, HostEscaped}

ServicePorts == {0, 80}

CheckRoutes == {EmptyString, <<"/", "p">>}

CheckIntervals == {EmptyString, <<"1", "s">>}

Configs ==
    {Config(key, host, port, route, interval) :
        key \in ServiceKeys, host \in ServiceHosts, port \in ServicePorts,
        route \in CheckRoutes, interval \in CheckIntervals}

LookupKeys == {Str_a, Str_b, Str_a_query_b}

Statuses == {StatusOK, StatusCreated, StatusNoContent, StatusNotFound, 500}

PingStatuses == {199, StatusOK, 299, StatusMultipleChoices, StatusNotFound}

Messages == {<<"m">>, <<Quote>>}

StatusTexts ==
    {EmptyString, Str_up, <<"U", "P">>, <<"U", "p">>, <<"d", "o", "w", "n">>,
     <<"u", "p", "s">>}

SampleHealthCheck == HealthCheck(<<"9", "s">>, <<"/">>, Str_http)

RegistrationSamples ==
    {RegistrationDTO(Str_a, st, HostPlain, 80, SampleHealthCheck) : st \in StatusTexts}
    \cup {RegistrationDTO(Str_b, Str_up, HostEscaped, 0 - 7, SampleHealthCheck)}

ListSamples ==
    {RegistrationDTO(Str_a, Str_up, HostPlain, 80, SampleHealthCheck),
     RegistrationDTO(Str_b, EmptyString, HostEscaped, 0 - 7, SampleHealthCheck)}

RECURSIVE SeqsUpTo(_, _)
SeqsUpTo(S, n) ==
    IF n = 0 THEN {<< >>}
    ELSE SeqsUpTo(S, n - 1)
         \cup {Append(q, x) : q \in {p \in SeqsUpTo(S, n - 1) : Len(p) = n - 1}, x \in S}

EnvelopeBodies ==
    {ReadErrBody, GarbageBody, EmptyObjectBody} \cup {EnvelopeBody(m) : m \in Messages}

RegistrationBodies == {RegistrationBody(r) : r \in RegistrationSamples}

ListBodies == {ListBody(rs) : rs \in SeqsUpTo(ListSamples, MaxListLen)}

ResponsesOf(statuses, bodies) ==
    {TransportError} \cup {Response(st, body) : st \in statuses, body \in bodies}

(***************************************************************************)
(* State                                                                   *)
(***************************************************************************)
VARIABLES
    config,      \* the types.Config given to NewKeeperClient
    k,           \* the keeperClient
    registry,    \* the records of the registry
    openBodies,  \* response bodies obtained and not closed
    last         \* the last operation: its argument, the responses it got,
                 \* what it sent and returned

vars == <<config, k, registry, openBodies, last>>

Call(op, arg, resps, out) ==
    [op |-> op, arg |-> arg,
     resps |-> SubSeq(resps, 1, IF Len(out.reqs) < Len(resps) THEN Len(out.reqs)
                                ELSE Len(resps)),
     out |-> out]

Returns(op, arg, resps, out) ==
    /\ last' = Call(op, arg, resps, out)
    /\ openBodies' = openBodies + out.obtained - out.closed
    /\ UNCHANGED <<config, k>>

StaleRegistrations ==
    [a |-> RegistrationDTO(Str_a, <<"U", "P">>, <<"o", "l", "d">>, 79, SampleHealthCheck),
     b |-> RegistrationDTO(Str_b, <<"d", "o", "w", "n">>, HostPlain, 81, SampleHealthCheck)]

InitRegistries ==
    {[key \in RegistryKeys |->
        IF key = Str_a THEN ra ELSE IF key = Str_b THEN rb ELSE Absent] :
        ra \in {Absent, Present(StaleRegistrations.a)},
        rb \in {Absent, Present(StaleRegistrations.b)}}

InitCommon ==
    /\ config \in Configs
    /\ k = NewKeeperClient(config)
    /\ openBodies = 0
    /\ last = Call("NewKeeperClient", EmptyString, << >>, ErrOutcome(<< >>, NoError, 0, 0))

(***************************************************************************)
(* Spec: the client against a server that may answer anything              *)
(***************************************************************************)
Init ==
    /\ InitCommon
    /\ registry = [key \in RegistryKeys |-> Absent]

CallRegister ==
    /\ openBodies < MaxOpenBodies
    /\ \E probe \in ResponsesOf(Statuses, {EmptyObjectBody}),
          resp \in ResponsesOf(Statuses, EnvelopeBodies) :
            Returns("Register", k.serviceKey, <<probe, resp>>, Register(k, probe, resp))
    /\ UNCHANGED registry

CallUnregister ==
    /\ openBodies < MaxOpenBodies
    /\ \E resp \in ResponsesOf(Statuses, EnvelopeBodies) :
            Returns("Unregister", k.serviceKey, <<resp>>, Unregister(k, resp))
    /\ UNCHANGED registry

CallIsAlive ==
    /\ openBodies < MaxOpenBodies
    /\ \E resp \in ResponsesOf(PingStatuses, {EmptyObjectBody}) :
            Returns("IsAlive", EmptyString, <<resp>>, IsAlive(k, resp))
    /\ UNCHANGED registry

Next ==
    \/ CallRegister
    \/ CallUnregister
    \/ CallIsAlive

Spec == Init /\ [][Next]_vars

(***************************************************************************)
(* SpecLookup: the lookups of a client against a server that may answer    *)
(* anything                                                                *)
(***************************************************************************)
LookupConfigs ==
    {Config(Str_a, EmptyString, 0, EmptyString, EmptyString),
     Config(Str_a, HostPlain, 80, <<"/", "p">>, <<"1", "s">>)}

InitLookup ==
    /\ InitCommon
    /\ config \in LookupConfigs
    /\ registry = [key \in RegistryKeys |-> Absent]

CallGetServiceEndpoint ==
    /\ openBodies < MaxOpenBodies
    /\ \E serviceKey \in LookupKeys,
          resp \in ResponsesOf(Statuses, EnvelopeBodies \cup RegistrationBodies) :
            Returns("GetServiceEndpoint", serviceKey, <<resp>>,
                    GetServiceEndpoint(k, serviceKey, resp))
    /\ UNCHANGED registry

CallGetAllServiceEndpoints ==
    /\ openBodies < MaxOpenBodies
    /\ \E resp \in ResponsesOf(Statuses, EnvelopeBodies \cup ListBodies) :
            Returns("GetAllServiceEndpoints", EmptyString, <<resp>>,
                    GetAllServiceEndpoints(k, resp))
    /\ UNCHANGED registry

CallIsServiceAvailable ==
    /\ openBodies < MaxOpenBodies
    /\ \E serviceKey \in LookupKeys,
          resp \in ResponsesOf(Statuses, EnvelopeBodies \cup RegistrationBodies) :
            Returns("IsServiceAvailable", serviceKey, <<resp>>,
                    IsServiceAvailable(k, serviceKey, resp))
    /\ UNCHANGED registry

NextLookup ==
    \/ CallGetServiceEndpoint
    \/ CallGetAllServiceEndpoints
    \/ CallIsServiceAvailable

SpecLookup == InitLookup /\ [][NextLookup]_vars

(***************************************************************************)
(* SpecConformant: the client against the conformant registry, which is    *)
(* reachable (no transport error) and whose health checker updates the     *)
(* status of the records                                                   *)
(***************************************************************************)
InitConformant ==
    /\ InitCommon
    /\ registry \in InitRegistries

ServedRegister ==
    /\ openBodies < MaxOpenBodies
    /\ LET probe == Serve(registry, GetRegistryByServiceRequest(k.serviceKey)).resp
           served == Serve(registry, RegisterRequest(k, probe))
           out == Register(k, probe, served.resp)
       IN  /\ Returns("Register", k.serviceKey, <<probe, served.resp>>, out)
           /\ registry' = IF Len(out.reqs) = 2 THEN served.registry ELSE registry

ServedUnregister ==
    /\ openBodies < MaxOpenBodies
    /\ LET served == Serve(registry, Unregister(k, TransportError).reqs[1])
       IN  /\ Returns("Unregister", k.serviceKey, <<served.resp>>,
                      Unregister(k, served.resp))
           /\ registry' = served.registry

ServedIsAlive ==
    /\ openBodies < MaxOpenBodies
    /\ LET served == Serve(registry, IsAlive(k, TransportError).reqs[1])
       IN  /\ Returns("IsAlive", EmptyString, <<served.resp>>, IsAlive(k, served.resp))
           /\ registry' = served.registry

ServedGetServiceEndpoint ==
    /\ openBodies < MaxOpenBodies
    /\ \E serviceKey \in LookupKeys :
          LET served == Serve(registry,
                              GetServiceEndpoint(k, serviceKey, TransportError).reqs[1])
          IN  /\ Returns("GetServiceEndpoint", serviceKey, <<served.resp>>,
                         GetServiceEndpoint(k, serviceKey, served.resp))
              /\ registry' = served.registry

ServedGetAllServiceEndpoints ==
    /\ openBodies < MaxOpenBodies
    /\ LET served == Serve(registry, GetAllServiceEndpoints(k, TransportError).reqs[1])
       IN  /\ Returns("GetAllServiceEndpoints", EmptyString, <<served.resp>>,
                      GetAllServiceEndpoints(k, served.resp))
           /\ registry' = served.registry

ServedIsServiceAvailable ==
    /\ openBodies < MaxOpenBodies
    /\ \E serviceKey \in LookupKeys :
          LET served == Serve(registry,
                              IsServiceAvailable(k, serviceKey, TransportError).reqs[1])
          IN  /\ Returns("IsServiceAvailable", serviceKey, <<served.resp>>,
                         IsServiceAvailable(k, serviceKey, served.resp))
              /\ registry' = served.registry

\* the registry's health checker sets the observed status of a record
RegistryHealthCheck ==
    /\ \E key \in RegistryKeys, st \in {<<"U", "P">>, <<"d", "o", "w", "n">>} :
          /\ registry[key].present
          /\ registry[key].rec.Status # st
          /\ registry' = [registry EXCEPT ![key].rec.Status = st]
    /\ UNCHANGED <<config, k, openBodies, last>>

NextConformant ==
    \/ ServedRegister
    \/ ServedUnregister
    \/ ServedIsAlive
    \/ ServedGetServiceEndpoint
    \/ ServedGetAllServiceEndpoints
    \/ ServedIsServiceAvailable
    \/ RegistryHealthCheck

SpecConformant == InitConformant /\ [][NextConformant]_vars

(***************************************************************************)
(* Properties                                                              *)
(***************************************************************************)
\* some field of the configuration is empty or zero
FieldMissing(c) ==
    \/ c.ServiceKey = << >>
    \/ c.ServiceHost = << >>
    \/ c.ServicePort = 0
    \/ c.CheckRoute = << >>
    \/ c.CheckInterval = << >>

\* C1: a fully configured Register first sends GET registration/<serviceKey>;
\* when the probe is answered it then sends exactly one request to the
\* registration route, a PUT if the probe status is 200 and a POST for every
\* other probe status, and it returns nil iff that request is answered with
\* status 201 or 204.
C1_RegisterPutOrPost ==
    (last.op = "Register" /\ ~ FieldMissing(config)) =>
        /\ Len(last.out.reqs) >= 1
        /\ last.out.reqs[1].method = "GET"
        /\ last.out.reqs[1].route = "/registration/"
        /\ last.out.reqs[1].key = config.ServiceKey
        /\ ~ last.resps[1].transportErr =>
              /\ Len(last.out.reqs) = 2
              /\ last.out.reqs[2].route = "/registration"
              /\ last.out.reqs[2].hasBody
              /\ last.out.reqs[2].method =
                    (IF last.resps[1].StatusCode = 200 THEN "PUT" ELSE "POST")
              /\ (last.out.err = NoError) <=>
                    (/\ ~ last.resps[2].transportErr
                     /\ last.resps[2].StatusCode \in {201, 204})

C1_Witness ==
    /\ last.op = "Register"
    /\ Len(last.out.reqs) = 2
    /\ last.resps[1].StatusCode = 200
    /\ last.out.reqs[2].method = "PUT"
    /\ last.resps[2].StatusCode = 204
    /\ last.out.err = NoError

\* C2: with a configuration in which the service key, the host, the port,
\* the health-check route or the interval is empty or zero, Register returns
\* an error and sends no request.
C2_RegisterNeedsServiceInformation ==
    (last.op = "Register" /\ FieldMissing(config)) =>
        /\ last.out.err # NoError
        /\ last.out.reqs = << >>
        /\ last.out.obtained = 0

C2_Witness ==
    /\ last.op = "Register"
    /\ config.ServiceKey # << >>
    /\ config.ServiceHost # << >>
    /\ config.ServicePort = 0
    /\ config.CheckRoute # << >>
    /\ config.CheckInterval # << >>
    /\ last.out.reqs = << >>

\* the registry's record for the client's key holds the client's settings
RecordReflectsConfig ==
    /\ config.ServiceKey \in RegistryKeys
    /\ registry[config.ServiceKey].present
    /\ registry[config.ServiceKey].rec.ServiceId = config.ServiceKey
    /\ registry[config.ServiceKey].rec.Host = config.ServiceHost
    /\ registry[config.ServiceKey].rec.Port = config.ServicePort
    /\ registry[config.ServiceKey].rec.HealthCheck.Path = config.CheckRoute
    /\ registry[config.ServiceKey].rec.HealthCheck.Interval = config.CheckInterval

\* C3: against the conformant registry, from any registry state, every
\* Register of a fully configured client succeeds and leaves the registry's
\* record for the client's key holding the configured host, port, route and
\* interval.
C3_RegisterConverges ==
    (last.op = "Register" /\ ~ FieldMissing(config)) =>
        /\ last.out.err = NoError
        /\ RecordReflectsConfig

\* C4: when an operation has returned, every response body it obtained has
\* been closed: the number of open response bodies is zero.
C4_NoOpenBodies == openBodies = 0

\* the spellings of "up" in any letter case
UpSpellings == {<<"u", "p">>, <<"U", "p">>, <<"u", "P">>, <<"U", "P">>}

\* C5: IsServiceAvailable returns (true, nil) for status 200 with a record
\* whose status field is "up" in any letter case; (false, error) for status
\* 200 with any other status field and for status 404; (false, error carrying
\* the envelope's message) for any other status with a decoded envelope; and
\* true in no other case.
C5_IsServiceAvailable ==
    (last.op = "IsServiceAvailable" /\ ~ last.resps[1].transportErr) =>
        LET resp == last.resps[1]
        IN  /\ Len(last.out.reqs) = 1
            /\ last.out.reqs[1].method = "GET"
            /\ last.out.reqs[1].route = "/registration/"
            /\ last.out.reqs[1].key = last.arg
            /\ \A r \in RegistrationSamples :
                  (resp.StatusCode = 200 /\ resp.Body = RegistrationBody(r)) =>
                      IF r.Status \in UpSpellings
                      THEN last.out.bool /\ last.out.err = NoError
                      ELSE ~ last.out.bool /\ last.out.err # NoError
            /\ resp.StatusCode = 404 => (~ last.out.bool /\ last.out.err # NoError)
            /\ resp.StatusCode \notin {200, 404} =>
                  /\ ~ last.out.bool
                  /\ last.out.err # NoError
                  /\ \A m \in Messages :
                        resp.Body = EnvelopeBody(m) =>
                            last.out.err.args[Len(last.out.err.args)] = m
            /\ last.out.bool <=> (last.out.err = NoError)
            /\ last.out.bool =>
                  /\ resp.StatusCode = 200
                  /\ \E r \in RegistrationSamples :
                        resp.Body = RegistrationBody(r) /\ r.Status \in UpSpellings

C5_Witness ==
    /\ last.op = "IsServiceAvailable"
    /\ last.resps[1].StatusCode = 200
    /\ \E r \in RegistrationSamples :
          /\ r.Status = <<"U", "p">>
          /\ last.resps[1].Body = RegistrationBody(r)
    /\ last.out.bool
    /\ last.out.err = NoError

\* the response of the last call is a 200 whose body decodes
DecodedOK ==
    /\ ~ last.resps[1].transportErr
    /\ last.resps[1].StatusCode = 200
    /\ last.resps[1].Body.kind = "json"

\* C6: GetServiceEndpoint(key) on a 200 response whose body decodes returns,
\* with no error, an endpoint whose identifier is the requested key and whose
\* host and port are the decoded record's; on any other status and on any
\* transport, read or decode failure it returns the zero-value endpoint and a
\* non-nil error.
C6_GetServiceEndpoint ==
    last.op = "GetServiceEndpoint" =>
        IF DecodedOK
        THEN /\ last.out.err = NoError
             /\ last.out.endpoint.ServiceId = last.arg
             /\ \A r \in RegistrationSamples :
                   last.resps[1].Body = RegistrationBody(r) =>
                       /\ last.out.endpoint.Host = r.Host
                       /\ last.out.endpoint.Port = r.Port
        ELSE /\ last.out.err # NoError
             /\ last.out.endpoint = [ServiceId |-> << >>, Host |-> << >>, Port |-> 0]

C6_Witness ==
    /\ last.op = "GetServiceEndpoint"
    /\ last.arg = Str_a
    /\ DecodedOK
    /\ \E r \in RegistrationSamples :
          /\ r.ServiceId = Str_b
          /\ last.resps[1].Body = RegistrationBody(r)
          /\ last.out.endpoint = [ServiceId |-> Str_a, Host |-> r.Host, Port |-> r.Port]

\* GetServiceEndpoint for the client's own key directly after a successful
\* Register
LookupAfterRegister ==
    /\ last.op = "Register"
    /\ last.out.err = NoError
    /\ last'.op = "GetServiceEndpoint"
    /\ last'.arg = config.ServiceKey

\* C7: after a successful Register against the conformant registry,
\* GetServiceEndpoint(key) returns, with no error, an endpoint whose host and
\* port are identical to the configured host and port.
C7_RoundTrip ==
    [][LookupAfterRegister =>
          /\ last'.out.err = NoError
          /\ last'.out.endpoint.Host = config.ServiceHost
          /\ last'.out.endpoint.Port = config.ServicePort]_vars

\* C8: Unregister sends one DELETE for the client's own service key and
\* returns nil iff the response status is 204; any other status yields an
\* error, which contains the registry's message when the body is an
\* envelope, and a transport failure yields an error.
C8_Unregister ==
    last.op = "Unregister" =>
        /\ Len(last.out.reqs) = 1
        /\ last.out.reqs[1].method = "DELETE"
        /\ last.out.reqs[1].route = "/registration/"
        /\ last.out.reqs[1].key = config.ServiceKey
        /\ (last.out.err = NoError) <=>
              (~ last.resps[1].transportErr /\ last.resps[1].StatusCode = 204)
        /\ \A m \in Messages :
              (/\ ~ last.resps[1].transportErr
               /\ last.resps[1].StatusCode # 204
               /\ last.resps[1].Body = EnvelopeBody(m)) =>
                    last.out.err.args[Len(last.out.err.args)] = m

C8_Witness ==
    /\ last.op = "Unregister"
    /\ last.resps[1].StatusCode = 200
    /\ last.resps[1].Body = EnvelopeBody(<<Quote>>)
    /\ last.out.err = Errorf("failed to unregister %s: %s", <<Str_a, <<Quote>> >>)

\* C9: IsAlive returns true for a ping response with status in [200,300) and
\* false for every other status and for a transport error; it reports no
\* error.
C9_IsAlive ==
    last.op = "IsAlive" =>
        /\ last.out.err = NoError
        /\ last.out.bool <=>
              (/\ ~ last.resps[1].transportErr
               /\ last.resps[1].StatusCode >= 200
               /\ last.resps[1].StatusCode <= 299)

C9_Witness ==
    /\ last.op = "IsAlive"
    /\ last.resps[1].StatusCode = 299
    /\ last.out.bool

\* C10: GetAllServiceEndpoints on a 200 response returns one endpoint per
\* record of the registry's list, in the order of the list, each with the
\* identifier, host and port of the record at its position; on an empty list
\* it returns an empty sequence and no error.
C10_GetAllServiceEndpoints ==
    (last.op = "GetAllServiceEndpoints" /\ DecodedOK) =>
        \A rs \in SeqsUpTo(ListSamples, MaxListLen) :
            last.resps[1].Body = ListBody(rs) =>
                /\ last.out.err = NoError
                /\ Len(last.out.endpoints) = Len(rs)
                /\ \A i \in 1..Len(rs) :
                      last.out.endpoints[i] =
                          [ServiceId |-> rs[i].ServiceId, Host |-> rs[i].Host,
                           Port |-> rs[i].Port]

C10_Witness ==
    /\ last.op = "GetAllServiceEndpoints"
    /\ DecodedOK
    /\ Len(last.out.endpoints) = 2
    /\ last.out.endpoints[1].ServiceId = Str_b
    /\ last.out.endpoints[2].ServiceId = Str_a

=============================================================================
